---- MODULE Spec2Model ----
(***************************************************************************)
(* A model of config/helpers.py: as_bool, clean, interpolate and           *)
(* interpolate_object.                                                     *)
(*                                                                         *)
(* Python strings are sequences of one-character strings, so that          *)
(* lower(), strip(), substring search, URL splitting and the format-string *)
(* scanner are computed character by character.  Python objects are        *)
(* records with a type tag t and one field per payload.                    *)
(***************************************************************************)
EXTENDS Integers, Sequences, FiniteSets, TLC

VARIABLES
  s0, s, bpc, bret,                      \* as_bool: argument, local s, position, outcome
  key0, key, value, mask, url, cpc, cret, parts,  \* clean
  text0, d, found0, found, stack, ret,   \* interpolate
  phase, ret1, passes, lookups,          \* interpolate: bookkeeping of the run
  obj, ostack, opc, oret                 \* interpolate_object

boolVars   == <<s0, s, bpc, bret>>
cleanVars  == <<key0, key, value, mask, url, cpc, cret, parts>>
interpVars == <<text0, d, found0, found, stack, ret, phase, ret1, passes, lookups>>
objVars    == <<obj, ostack, opc, oret>>
vars       == <<boolVars, cleanVars, interpVars, objVars>>

(***************************************************************************)
(* Python objects and call outcomes                                        *)
(***************************************************************************)
PyNone    == [t |-> "None", b |-> FALSE, n |-> 0, s |-> <<>>, items |-> <<>>]
PyBool(x) == [t |-> "bool", b |-> x, n |-> 0, s |-> <<>>, items |-> <<>>]
PyInt(k)  == [t |-> "int", b |-> FALSE, n |-> k, s |-> <<>>, items |-> <<>>]
PyStr(cs) == [t |-> "str", b |-> FALSE, n |-> 0, s |-> cs, items |-> <<>>]
PyList(xs) == [t |-> "list", b |-> FALSE, n |-> 0, s |-> <<>>, items |-> xs]

Returned(v) == [kind |-> "return", exc |-> "", val |-> v]
Raised(e)   == [kind |-> "raise", exc |-> e, val |-> PyNone]
Pending     == [kind |-> "pending", exc |-> "", val |-> PyNone]

(***************************************************************************)
(* Characters                                                              *)
(***************************************************************************)
UpperCase == <<"A","B","C","D","E","F","G","H","I","J","K","L","M",
               "N","O","P","Q","R","S","T","U","V","W","X","Y","Z">>
LowerCase == <<"a","b","c","d","e","f","g","h","i","j","k","l","m",
               "n","o","p","q","r","s","t","u","v","w","x","y","z">>
Digits    == <<"0","1","2","3","4","5","6","7","8","9">>
WhiteSpace == {" ", "\t", "\n", "\r", "\f"}

\* str.lower() on one character
LowerChar(c) ==
  IF \E i \in 1..Len(UpperCase) : UpperCase[i] = c
  THEN LowerCase[CHOOSE i \in 1..Len(UpperCase) : UpperCase[i] = c]
  ELSE c

\* str.upper() on one character (used to build inputs)
UpperChar(c) ==
  IF \E i \in 1..Len(LowerCase) : LowerCase[i] = c
  THEN UpperCase[CHOOSE i \in 1..Len(LowerCase) : LowerCase[i] = c]
  ELSE c

\* str.lower()
Lower(cs) == [i \in 1..Len(cs) |-> LowerChar(cs[i])]

Upper(cs) == [i \in 1..Len(cs) |-> UpperChar(cs[i])]

Capitalized(cs) == [i \in 1..Len(cs) |-> IF i = 1 THEN UpperChar(cs[i]) ELSE cs[i]]

\* str.lstrip(), str.rstrip(), str.strip() with no argument
RECURSIVE LStrip(_)
LStrip(cs) ==
  IF cs # <<>> /\ Head(cs) \in WhiteSpace THEN LStrip(Tail(cs)) ELSE cs

RECURSIVE RStrip(_)
RStrip(cs) ==
  IF cs # <<>> /\ cs[Len(cs)] \in WhiteSpace
  THEN RStrip(SubSeq(cs, 1, Len(cs) - 1))
  ELSE cs

Strip(cs) == RStrip(LStrip(cs))

\* str(n) for an int
RECURSIVE NatStr(_)
NatStr(k) ==
  IF k < 10 THEN <<Digits[k + 1]>> ELSE NatStr(k \div 10) \o <<Digits[(k % 10) + 1]>>

IntStr(k) == IF k < 0 THEN <<"-">> \o NatStr(-k) ELSE NatStr(k)

\* str(x)
Str(x) ==
  CASE x.t = "str"  -> x.s
    [] x.t = "int"  -> IntStr(x.n)
    [] x.t = "bool" -> IF x.b THEN <<"T","r","u","e">> ELSE <<"F","a","l","s","e">>
    [] x.t = "None" -> <<"N","o","n","e">>

\* sub in cs
Contains(cs, sub) ==
  \E i \in 1..(Len(cs) - Len(sub) + 1) : SubSeq(cs, i, i + Len(sub) - 1) = sub

\* cs.find(sub): the first index (from 1) where sub starts, 0 when there is none
Find(cs, sub) ==
  IF Contains(cs, sub)
  THEN CHOOSE i \in 1..(Len(cs) - Len(sub) + 1) :
         /\ SubSeq(cs, i, i + Len(sub) - 1) = sub
         /\ \A j \in 1..(i - 1) : SubSeq(cs, j, j + Len(sub) - 1) # sub
  ELSE 0

\* cs.rfind(sub): the last index where sub starts, 0 when there is none
RFind(cs, sub) ==
  IF Contains(cs, sub)
  THEN CHOOSE i \in 1..(Len(cs) - Len(sub) + 1) :
         /\ SubSeq(cs, i, i + Len(sub) - 1) = sub
         /\ \A j \in (i + 1)..(Len(cs) - Len(sub) + 1) : SubSeq(cs, j, j + Len(sub) - 1) # sub
  ELSE 0

\* cs.partition(sep) and cs.rpartition(sep), as (before, found, after)
Partition(cs, sep) ==
  LET i == Find(cs, sep) IN
  IF i = 0 THEN [head |-> cs, have |-> FALSE, tail |-> <<>>]
  ELSE [head |-> SubSeq(cs, 1, i - 1), have |-> TRUE,
        tail |-> SubSeq(cs, i + Len(sep), Len(cs))]

RPartition(cs, sep) ==
  LET i == RFind(cs, sep) IN
  IF i = 0 THEN [head |-> <<>>, have |-> FALSE, tail |-> cs]
  ELSE [head |-> SubSeq(cs, 1, i - 1), have |-> TRUE,
        tail |-> SubSeq(cs, i + Len(sep), Len(cs))]

\* all sequences over S of length at most n
RECURSIVE SeqsUpTo(_, _)
SeqsUpTo(S, n) ==
  IF n = 0 THEN {<<>>}
  ELSE LET shorter == SeqsUpTo(S, n - 1) IN
       shorter \cup {<<x>> \o q : x \in S, q \in {r \in shorter : Len(r) = n - 1}}

\* the concatenation of a sequence of strings
RECURSIVE Concat(_)
Concat(ps) == IF ps = <<>> THEN <<>> ELSE Head(ps) \o Concat(Tail(ps))

(***************************************************************************)
(* Module constants                                                        *)
(***************************************************************************)
TRUTH_TEXT ==
  { <<"t">>, <<"t","r","u","e">>, <<"y">>, <<"y","e","s">>, <<"o","n">>, <<"1">> }

FALSE_TEXT ==
  { <<"f">>, <<"f","a","l","s","e">>, <<"n">>, <<"n","o">>, <<"o","f","f">>,
    <<"0">>, <<>> }

PROTECTED_KEYS ==
  { <<"s","e","c","r","e","t">>, <<"p","a","s","s","w","o","r","d">>,
    <<"p","a","s","s","w","d">>, <<"p","w","d">> }

DefaultMask == <<"*","*","*","*","*","*">>

(***************************************************************************)
(* as_bool (lines 14-29)                                                   *)
(***************************************************************************)
MaxPad == 1
MaxInt == 11

PadChars == {" ", "\n"}
Pads == SeqsUpTo(PadChars, MaxPad)

OtherWords ==
  { <<"2">>, <<"1","0">>, <<"t","r","u">>, <<"y","e","s","s">>, <<"o"," ","n">>,
    <<"n","o","n","e">>, <<"x">>, <<"o","f">> }

BoolWords == TRUTH_TEXT \cup FALSE_TEXT \cup OtherWords

BoolStrings ==
  { l \o w \o r : l \in Pads, r \in Pads,
                  w \in UNION { {v, Upper(v), Capitalized(v)} : v \in BoolWords } }

BoolInputs ==
  {PyNone, PyBool(TRUE), PyBool(FALSE)}
    \cup {PyInt(k) : k \in (-1)..MaxInt}
    \cup {PyStr(cs) : cs \in BoolStrings}

BoolIdle == s0 = PyNone /\ s = PyNone /\ bpc = "idle" /\ bret = Pending

BoolInit ==
  /\ s0 \in BoolInputs
  /\ s = s0
  /\ bpc = "start"
  /\ bret = Pending

\* line 26: s = str(s).strip().lower()
NormaliseWithoutStrip(x) == Lower(Str(x))
Normalise(x) == Lower(Strip(Str(x)))

\* line 27: s not in TRUTH_TEXT and s not in FALSE_TEXT
InvalidBoolean(cs) == cs \notin TRUTH_TEXT /\ cs \notin FALSE_TEXT

\* lines 22-23
AsBoolNone ==
  /\ bpc = "start"
  /\ s.t = "None"
  /\ bret' = Returned(PyBool(FALSE))
  /\ bpc' = "done"
  /\ UNCHANGED <<s0, s, cleanVars, interpVars, objVars>>

\* lines 24-25
AsBoolNative ==
  /\ bpc = "start"
  /\ s.t = "bool"
  /\ bret' = Returned(s)
  /\ bpc' = "done"
  /\ UNCHANGED <<s0, s, cleanVars, interpVars, objVars>>

\* line 26
AsBoolNormalise ==
  /\ bpc = "start"
  /\ s.t \notin {"None", "bool"}
  /\ s' = PyStr(Normalise(s))
  /\ bpc' = "text"
  /\ UNCHANGED <<s0, bret, cleanVars, interpVars, objVars>>

\* lines 27-28
AsBoolRaise ==
  /\ bpc = "text"
  /\ InvalidBoolean(s.s)
  /\ bret' = Raised("ValueError: Expected a valid True or False expression.")
  /\ bpc' = "done"
  /\ UNCHANGED <<s0, s, cleanVars, interpVars, objVars>>

\* line 29
AsBoolReturn ==
  /\ bpc = "text"
  /\ ~InvalidBoolean(s.s)
  /\ bret' = Returned(PyBool(s.s \in TRUTH_TEXT))
  /\ bpc' = "done"
  /\ UNCHANGED <<s0, s, cleanVars, interpVars, objVars>>

AsBool ==
  \/ AsBoolNone
  \/ AsBoolNative
  \/ AsBoolNormalise
  \/ AsBoolRaise
  \/ AsBoolReturn

(***************************************************************************)
(* clean (lines 32-57), with the part of urllib.parse it calls             *)
(***************************************************************************)
IsAlpha(c) == \E i \in 1..Len(LowerCase) : LowerCase[i] = c \/ UpperCase[i] = c
IsDigit(c) == \E i \in 1..Len(Digits) : Digits[i] = c
IsSchemeChar(c) == IsAlpha(c) \/ IsDigit(c) \/ c \in {"+", "-", "."}

\* the first index of cs holding one of the characters of S, Len(cs) + 1 when none
FirstOf(cs, S) ==
  IF \E i \in 1..Len(cs) : cs[i] \in S
  THEN CHOOSE i \in 1..Len(cs) : cs[i] \in S /\ \A j \in 1..(i - 1) : cs[j] \notin S
  ELSE Len(cs) + 1

\* urlparse(value) for a value without ';' or '[': urlsplit's scheme, netloc, path,
\* query and fragment, after it drops leading blanks and every tab and line break
UrlParse(value_) ==
  LET u == SelectSeq(LStrip(value_), LAMBDA c : c \notin {"\t", "\r", "\n"})
      i == Find(u, <<":">>)
      hasScheme == /\ i > 1
                   /\ IsAlpha(u[1])
                   /\ \A j \in 1..(i - 1) : IsSchemeChar(u[j])
      scheme == IF hasScheme THEN Lower(SubSeq(u, 1, i - 1)) ELSE <<>>
      rest == IF hasScheme THEN SubSeq(u, i + 1, Len(u)) ELSE u
      hasNetloc == SubSeq(rest, 1, 2) = <<"/", "/">>
      after == SubSeq(rest, 3, Len(rest))
      cut == FirstOf(after, {"/", "?", "#"})
      netloc == IF hasNetloc THEN SubSeq(after, 1, cut - 1) ELSE <<>>
      rest2 == IF hasNetloc THEN SubSeq(after, cut, Len(after)) ELSE rest
      fr == Partition(rest2, <<"#">>)
      qu == Partition(fr.head, <<"?">>)
  IN [scheme |-> scheme, netloc |-> netloc, path |-> qu.head,
      query |-> qu.tail, fragment |-> fr.tail]

NoUrl == [scheme |-> <<>>, netloc |-> <<>>, path |-> <<>>, query |-> <<>>, fragment |-> <<>>]

\* url.username and url.password (_userinfo); none is None
UserInfo(netloc) ==
  LET at == RPartition(netloc, <<"@">>)
      up == Partition(at.head, <<":">>)
  IN IF at.have
     THEN [username |-> PyStr(up.head),
           password |-> IF up.have THEN PyStr(up.tail) ELSE PyNone]
     ELSE [username |-> PyNone, password |-> PyNone]

\* url.hostname (_hostinfo, then lower-cased; None when empty)
HostName(netloc) ==
  LET hostinfo == RPartition(netloc, <<"@">>).tail
      br == Partition(hostinfo, <<"[">>)
      name == IF br.have THEN Partition(br.tail, <<"]">>).head
              ELSE Partition(hostinfo, <<":">>).head
      zone == Partition(name, <<"%">>)
  IN IF name = <<>> THEN PyNone
     ELSE PyStr(Lower(zone.head) \o (IF zone.have THEN <<"%">> ELSE <<>>) \o zone.tail)

\* url.geturl() (urlunsplit)
GetUrl(u) ==
  LET p1 == IF u.netloc # <<>>
            THEN <<"/", "/">> \o u.netloc
                   \o (IF u.path # <<>> /\ Head(u.path) # "/" THEN <<"/">> ELSE <<>>)
                   \o u.path
            ELSE u.path
      p2 == IF u.scheme # <<>> THEN u.scheme \o <<":">> \o p1 ELSE p1
      p3 == IF u.query # <<>> THEN p2 \o <<"?">> \o u.query ELSE p2
  IN IF u.fragment # <<>> THEN p3 \o <<"#">> \o u.fragment ELSE p3

\* lines 43-44: some pk of PROTECTED_KEYS is a substring of the lower-cased key
ProtectedKeyExact(k) == k \in PROTECTED_KEYS
ProtectedKey(k) == \E pk \in PROTECTED_KEYS : Contains(k, pk)

\* line 47: isinstance(value, str) and "://" in value
LooksLikeUrl(v) == v.t = "str" /\ Contains(v.s, <<":", "/", "/">>)

\* line 55: "{}:{}@{}".format(url.username, mask, url.hostname)
MaskedNetloc(netloc, m) ==
  Str(UserInfo(netloc).username) \o <<":">> \o m \o <<"@">> \o Str(HostName(netloc))

KeyWords ==
  PROTECTED_KEYS \cup
  { <<"p","w">>, <<"p","_","w","d">>, <<"p","a","s","s","w","o","r">>,
    <<"u","r","l">>, <<>> }
KeyPrefixes == { <<>>, <<"x">> }
KeySuffixes == { <<>>, <<"s">> }
Keys ==
  { p \o w \o q : p \in KeyPrefixes, q \in KeySuffixes,
                  w \in UNION { {v, Upper(v), Capitalized(v)} : v \in KeyWords } }

Schemes   == { <<"d","b">>, <<"D","b">> }
UserInfos == { [has |-> FALSE, user |-> <<>>, hasPw |-> FALSE, pw |-> <<>>],
               [has |-> TRUE, user |-> <<"u">>, hasPw |-> FALSE, pw |-> <<>>],
               [has |-> TRUE, user |-> <<"U">>, hasPw |-> TRUE, pw |-> <<"s">>],
               [has |-> TRUE, user |-> <<"u">>, hasPw |-> TRUE, pw |-> <<>>],
               [has |-> TRUE, user |-> <<>>, hasPw |-> TRUE, pw |-> <<"s">>] }
Hosts     == { <<"h">>, <<"H">>, <<>> }
Ports     == { <<>>, <<":", "5">> }
Paths     == { <<>>, <<"/", "p">>, <<"/", "p", "?", "q", "#", "f">> }

UrlParts ==
  [isUrl : {TRUE}, scheme : Schemes, ui : UserInfos, host : Hosts, port : Ports,
   path : Paths]

NoParts ==
  [isUrl |-> FALSE, scheme |-> <<>>,
   ui |-> [has |-> FALSE, user |-> <<>>, hasPw |-> FALSE, pw |-> <<>>],
   host |-> <<>>, port |-> <<>>, path |-> <<>>]

\* the URL text of its parts, the password segment being pw
UrlText(p, pw) ==
  p.scheme \o <<":", "/", "/">>
    \o (IF p.ui.has
        THEN p.ui.user \o (IF p.ui.hasPw THEN <<":">> \o pw ELSE <<>>) \o <<"@">>
        ELSE <<>>)
    \o p.host \o p.port \o p.path

PlainValues ==
  { PyNone, PyInt(5), PyBool(TRUE), PyStr(<<"x">>), PyStr(<<"s","e","c","r","e","t">>),
    PyStr(<<"x", ":", "/", "/">>), PyStr(<<" ", "d", ":", "/", "/", "u", ":", "s", "@", "h">>) }

Masks == { DefaultMask, <<"#">> }

CleanIdle ==
  /\ key0 = <<>> /\ key = <<>> /\ value = PyNone /\ mask = <<>> /\ url = NoUrl
  /\ cpc = "idle" /\ cret = Pending /\ parts = NoParts

CleanInit ==
  /\ key0 \in Keys
  /\ key = key0
  /\ mask \in Masks
  /\ \/ parts \in UrlParts /\ value = PyStr(UrlText(parts, parts.ui.pw))
     \/ parts = NoParts /\ value \in PlainValues
  /\ url = NoUrl
  /\ cpc = "start"
  /\ cret = Pending

\* line 41
CleanLower ==
  /\ cpc = "start"
  /\ key' = Lower(key)
  /\ cpc' = "keys"
  /\ UNCHANGED <<key0, value, mask, url, cret, parts, boolVars, interpVars, objVars>>

\* lines 43-45
CleanProtected ==
  /\ cpc = "keys"
  /\ ProtectedKey(key)
  /\ cret' = Returned(PyStr(mask))
  /\ cpc' = "done"
  /\ UNCHANGED <<key0, key, value, mask, url, parts, boolVars, interpVars, objVars>>

\* lines 47-50
CleanParse ==
  /\ cpc = "keys"
  /\ ~ProtectedKey(key)
  /\ LooksLikeUrl(value)
  /\ url' = UrlParse(value.s)
  /\ cpc' = "url"
  /\ UNCHANGED <<key0, key, value, mask, cret, parts, boolVars, interpVars, objVars>>

\* lines 51-52
CleanNoPassword ==
  /\ cpc = "url"
  /\ UserInfo(url.netloc).password = PyNone
  /\ cret' = Returned(value)
  /\ cpc' = "done"
  /\ UNCHANGED <<key0, key, value, mask, url, parts, boolVars, interpVars, objVars>>

\* lines 53-56
CleanMaskPassword ==
  /\ cpc = "url"
  /\ UserInfo(url.netloc).password # PyNone
  /\ url' = [url EXCEPT !.netloc = MaskedNetloc(url.netloc, mask)]
  /\ cret' = Returned(PyStr(GetUrl(url')))
  /\ cpc' = "done"
  /\ UNCHANGED <<key0, key, value, mask, parts, boolVars, interpVars, objVars>>

\* line 57
CleanPlain ==
  /\ cpc = "keys"
  /\ ~ProtectedKey(key)
  /\ ~LooksLikeUrl(value)
  /\ cret' = Returned(value)
  /\ cpc' = "done"
  /\ UNCHANGED <<key0, key, value, mask, url, parts, boolVars, interpVars, objVars>>

Clean ==
  \/ CleanLower
  \/ CleanProtected
  \/ CleanParse
  \/ CleanNoPassword
  \/ CleanMaskPassword
  \/ CleanPlain

(***************************************************************************)
(* interpolate (lines 60-84), with string.Formatter().parse and str.format *)
(* for texts made of letters, '{' and '}'                                  *)
(***************************************************************************)
Ascii == <<" ", "#", "*", "+", "-", ".", "/">> \o Digits \o <<":", "?", "@">>
           \o UpperCase \o <<"_">> \o LowerCase \o <<"{", "}">>

CodePoint(c) == CHOOSE i \in 1..Len(Ascii) : Ascii[i] = c

\* a < b for two strings
RECURSIVE StrLess(_, _)
StrLess(a, b) ==
  IF b = <<>> THEN FALSE
  ELSE IF a = <<>> THEN TRUE
  ELSE IF Head(a) = Head(b) THEN StrLess(Tail(a), Tail(b))
  ELSE CodePoint(Head(a)) < CodePoint(Head(b))

\* x put in its place in the sorted list xs
RECURSIVE Insert(_, _)
Insert(x, xs) ==
  IF xs = <<>> THEN <<x>>
  ELSE IF StrLess(x, Head(xs)) THEN <<x>> \o xs
  ELSE <<Head(xs)>> \o Insert(x, Tail(xs))

\* sorted(xs)
RECURSIVE Sorted(_)
Sorted(xs) == IF xs = <<>> THEN <<>> ELSE Insert(Head(xs), Sorted(Tail(xs)))

\* the end of the field that starts at index i: the index of its '}', or 0 when a
\* '{' or the end of the text comes first
FieldEnd(text, i) ==
  LET j == FirstOf(SubSeq(text, i, Len(text)), {"{", "}"}) + i - 1
  IN IF j <= Len(text) /\ text[j] = "}" THEN j ELSE 0

\* [x[1] for x in string.Formatter().parse(text) if x[1] is not None], read from
\* index i on: the field names in order of appearance (an anonymous field "{}"
\* has the name ""), or the ValueError of a malformed text
RECURSIVE ScanFields(_, _, _)
ScanFields(text, i, acc) ==
  IF i > Len(text) THEN [ok |-> TRUE, fields |-> acc]
  ELSE IF text[i] \notin {"{", "}"} THEN ScanFields(text, i + 1, acc)
  ELSE IF i < Len(text) /\ text[i + 1] = text[i] THEN ScanFields(text, i + 2, acc)
  ELSE IF text[i] = "}" \/ i = Len(text) \/ FieldEnd(text, i + 1) = 0
       THEN [ok |-> FALSE, fields |-> <<>>]
  ELSE LET j == FieldEnd(text, i + 1)
       IN ScanFields(text, j + 1, Append(acc, SubSeq(text, i + 1, j - 1)))

ParseFields(text) == ScanFields(text, 1, <<>>)

\* lines 71-73
Variables(fields) == Sorted(fields)

\* text.format(**kw) read from index i on, for a text ParseFields accepts and kw
\* defined on each of its names: "{{" and "}}" give one brace, a named field its
\* value's str(), an anonymous field an IndexError (there is no positional argument)
RECURSIVE FormatFrom(_, _, _, _)
FormatFrom(text, i, kw, out) ==
  IF i > Len(text) THEN [ok |-> TRUE, out |-> out]
  ELSE IF text[i] \notin {"{", "}"} THEN FormatFrom(text, i + 1, kw, Append(out, text[i]))
  ELSE IF i < Len(text) /\ text[i + 1] = text[i]
       THEN FormatFrom(text, i + 2, kw, Append(out, text[i]))
  ELSE LET j == FieldEnd(text, i + 1)
           name == SubSeq(text, i + 1, j - 1)
       IN IF name = <<>> THEN [ok |-> FALSE, out |-> <<>>]
          ELSE FormatFrom(text, j + 1, kw, out \o Str(kw[name]))

Format(text, kw) == FormatFrom(text, 1, kw, <<>>)

\* {v: ... for v in variables}: the last value computed for each name
Interpolated(vs, acc) ==
  [v \in {vs[i] : i \in 1..Len(acc)} |->
     acc[CHOOSE i \in 1..Len(acc) : vs[i] = v /\ \A j \in (i + 1)..Len(acc) : vs[j] # v]]

CycleError     == "ValueError: Cycle detected while interpolating keys"
MalformedError == "ValueError: malformed format string"
MissingKey     == "KeyError"
NoPositional   == "IndexError: Replacement index 0 out of range"

\* lines 78-79
AlreadyFound(vs, fnd) == vs \in fnd

\* line 81
VisitedUnchanged(fnd, vs) == fnd
VisitedAdd(fnd, vs) == fnd \cup {vs}

\* line 83: d[v], a KeyError when v is no key of d
LookupOrEmpty(dd, v) ==
  IF v \in DOMAIN dd THEN [ok |-> TRUE, val |-> dd[v]] ELSE [ok |-> TRUE, val |-> PyStr(<<>>)]
Lookup(dd, v) ==
  IF v \in DOMAIN dd THEN [ok |-> TRUE, val |-> dd[v]] ELSE [ok |-> FALSE, val |-> PyNone]

\* the whole call as one function: the outcome and the visited set it leaves
RECURSIVE Interpolate(_, _, _)
RECURSIVE InterpolateEach(_, _, _, _, _)
Interpolate(text, dd, fnd) ==
  IF text.t # "str" THEN [out |-> Returned(text), found |-> fnd]
  ELSE LET p == ParseFields(text.s)
           vs == Variables(p.fields)
       IN IF ~p.ok THEN [out |-> Raised(MalformedError), found |-> fnd]
          ELSE IF vs = <<>> THEN [out |-> Returned(text), found |-> fnd]
          ELSE IF AlreadyFound(vs, fnd) THEN [out |-> Raised(CycleError), found |-> fnd]
          ELSE LET r == InterpolateEach(vs, 1, dd, VisitedAdd(fnd, vs), <<>>)
                   f == Format(text.s, Interpolated(vs, r.acc))
               IN IF r.out.kind = "raise" THEN [out |-> r.out, found |-> r.found]
                  ELSE IF f.ok THEN [out |-> Returned(PyStr(f.out)), found |-> r.found]
                  ELSE [out |-> Raised(NoPositional), found |-> r.found]

InterpolateEach(vs, i, dd, fnd, acc) ==
  IF i > Len(vs) THEN [out |-> Returned(PyNone), found |-> fnd, acc |-> acc]
  ELSE IF ~Lookup(dd, vs[i]).ok THEN [out |-> Raised(MissingKey), found |-> fnd, acc |-> acc]
  ELSE LET r == Interpolate(Lookup(dd, vs[i]).val, dd, fnd)
       IN IF r.out.kind = "raise" THEN [out |-> r.out, found |-> r.found, acc |-> acc]
          ELSE InterpolateEach(vs, i + 1, dd, r.found, Append(acc, r.out.val))

\* the same call step by step: one frame per active call of interpolate
Frame(v) == [text |-> v, pc |-> "enter", vars |-> <<>>, i |-> 1, acc |-> <<>>]

Top == stack[Len(stack)]

\* the top frame returns v: to the caller's dict comprehension, or to the outside
ReturnValue(v) ==
  IF Len(stack) = 1
  THEN /\ stack' = <<>>
       /\ ret' = Returned(v)
  ELSE /\ stack' = [k \in 1..(Len(stack) - 1) |->
                      IF k = Len(stack) - 1
                      THEN [stack[k] EXCEPT !.acc = Append(@, v), !.i = @ + 1]
                      ELSE stack[k]]
       /\ UNCHANGED ret

\* an exception leaves every active call
RaiseError(e) ==
  /\ stack' = <<>>
  /\ ret' = Raised(e)

SetTop(f) == stack' = [stack EXCEPT ![Len(stack)] = f]

\* lines 68-76
InterpEnter ==
  /\ stack # <<>>
  /\ Top.pc = "enter"
  /\ IF Top.text.t # "str" THEN ReturnValue(Top.text)
     ELSE LET p == ParseFields(Top.text.s)
              vs == Variables(p.fields)
          IN IF ~p.ok THEN RaiseError(MalformedError)
             ELSE IF vs = <<>> THEN ReturnValue(Top.text)
             ELSE SetTop([Top EXCEPT !.pc = "check", !.vars = vs]) /\ UNCHANGED ret
  /\ UNCHANGED <<text0, d, found0, found, phase, ret1, passes, lookups, boolVars, cleanVars, objVars>>

\* lines 78-81
InterpCheck ==
  /\ stack # <<>>
  /\ Top.pc = "check"
  /\ IF AlreadyFound(Top.vars, found)
     THEN RaiseError(CycleError) /\ UNCHANGED <<found, passes>>
     ELSE /\ found' = VisitedAdd(found, Top.vars)
          /\ passes' = passes + 1
          /\ SetTop([Top EXCEPT !.pc = "loop"])
          /\ UNCHANGED ret
  /\ UNCHANGED <<text0, d, found0, phase, ret1, lookups, boolVars, cleanVars, objVars>>

\* line 83, one name of the comprehension: d[v], then the recursive call
InterpLookup ==
  /\ stack # <<>>
  /\ Top.pc = "loop"
  /\ Top.i <= Len(Top.vars)
  /\ lookups' = lookups \cup {Top.vars[Top.i]}
  /\ LET v == Lookup(d, Top.vars[Top.i])
     IN IF ~v.ok THEN RaiseError(MissingKey)
        ELSE stack' = Append(stack, Frame(v.val)) /\ UNCHANGED ret
  /\ UNCHANGED <<text0, d, found0, found, phase, ret1, passes, boolVars, cleanVars, objVars>>

\* line 84
InterpFormat ==
  /\ stack # <<>>
  /\ Top.pc = "loop"
  /\ Top.i > Len(Top.vars)
  /\ LET f == Format(Top.text.s, Interpolated(Top.vars, Top.acc))
     IN IF f.ok THEN ReturnValue(PyStr(f.out)) ELSE RaiseError(NoPositional)
  /\ UNCHANGED <<text0, d, found0, found, phase, ret1, passes, lookups, boolVars, cleanVars, objVars>>

\* a caller interpolates the string a first call returned, with a fresh set()
Rerun ==
  /\ phase = 1
  /\ stack = <<>>
  /\ ret.kind = "return"
  /\ ret.val.t = "str"
  /\ phase' = 2
  /\ ret1' = ret
  /\ ret' = Pending
  /\ found' = {}
  /\ passes' = 0
  /\ lookups' = {}
  /\ stack' = <<Frame(ret.val)>>
  /\ UNCHANGED <<text0, d, found0, boolVars, cleanVars, objVars>>

MaxTokens == 2

Pieces ==
  { <<"x">>, <<"{", "a", "}">>, <<"{", "b", "}">>, <<"{", "c", "}">>, <<"{", "}">>,
    <<"{", "{">>, <<"}", "}">> }

Texts == { Concat(ps) : ps \in SeqsUpTo(Pieces, MaxTokens) }

ValuesOf ==
  [a |-> { PyStr(<<"x">>), PyStr(<<"{", "a", "}">>), PyStr(<<"{", "b", "}">>),
           PyStr(<<"{", "c", "}">>), PyStr(<<"{", "}">>) },
   b |-> { PyStr(<<"x">>), PyStr(<<"{", "a", "}">>), PyStr(<<"{", "b", "}">>),
           PyStr(<<"{", "c", "}">>) },
   c |-> { PyStr(<<"x">>), PyInt(5) },
   anon |-> { PyStr(<<"x">>) }]

KeyNames == [a |-> <<"a">>, b |-> <<"b">>, c |-> <<"c">>, anon |-> <<>>]

\* the dictionaries: each key absent or bound to one of its values
Mappings ==
  UNION { { [k \in {KeyNames[x] : x \in ks} |->
               LET x == CHOOSE y \in ks : KeyNames[y] = k IN f[x]]
            : f \in [ks -> UNION {ValuesOf[x] : x \in ks}] \cap
                    { g \in [ks -> UNION {ValuesOf[x] : x \in ks}] :
                        \A x \in ks : g[x] \in ValuesOf[x] } }
          : ks \in SUBSET {"a", "b", "c", "anon"} }

\* the visited sets a call is given: a top-level call's set(), or one already holding
\* a signature
Visiteds == { {}, {<< <<"a">> >>} }

InterpIdle ==
  /\ text0 = PyNone /\ d = <<>> /\ found0 = {} /\ found = {} /\ stack = <<>>
  /\ ret = Pending /\ phase = 0 /\ ret1 = Pending /\ passes = 0 /\ lookups = {}

InterpInit ==
  /\ text0 \in {PyStr(cs) : cs \in Texts}
  /\ d \in Mappings
  /\ found0 \in Visiteds
  /\ found = found0
  /\ stack = <<Frame(text0)>>
  /\ ret = Pending
  /\ phase = 1
  /\ ret1 = Pending
  /\ passes = 0
  /\ lookups = {}

InterpNext ==
  \/ InterpEnter
  \/ InterpCheck
  \/ InterpLookup
  \/ InterpFormat
  \/ Rerun

(***************************************************************************)
(* interpolate_object (lines 87-99)                                        *)
(***************************************************************************)
\* line 95: the set() handed to interpolate, whatever set an earlier call left
SharedVisited(fnd) == fnd
FreshVisited(fnd) == {}

\* the whole call as one function
RECURSIVE InterpolateObject(_, _)
InterpolateObject(o, dd) ==
  IF o.t = "str" THEN Interpolate(o, dd, FreshVisited({})).out
  ELSE IF o.t = "list"
  THEN LET rs == [i \in 1..Len(o.items) |-> InterpolateObject(o.items[i], dd)]
       IN IF \E i \in 1..Len(rs) : rs[i].kind = "raise"
          THEN rs[CHOOSE i \in 1..Len(rs) :
                    rs[i].kind = "raise" /\ \A j \in 1..(i - 1) : rs[j].kind # "raise"]
          ELSE Returned(PyList([i \in 1..Len(rs) |-> rs[i].val]))
  ELSE Returned(o)

\* the same call step by step: one frame per list being rebuilt
OTop == ostack[Len(ostack)]

\* the object the innermost active call of interpolate_object was given
Current == IF ostack = <<>> THEN obj ELSE OTop.items[OTop.i]

Dispatching ==
  opc = "dispatch" /\ (IF ostack = <<>> THEN TRUE ELSE OTop.i <= Len(OTop.items))

\* a call returns v: into the list comprehension of its caller st, or to the outside
Deliver(st, v) ==
  IF st = <<>>
  THEN /\ ostack' = <<>>
       /\ oret' = Returned(v)
       /\ opc' = "done"
  ELSE /\ ostack' = [st EXCEPT ![Len(st)] = [@ EXCEPT !.out = Append(@, v), !.i = @ + 1]]
       /\ opc' = "dispatch"
       /\ UNCHANGED oret

\* lines 94-95: the call of interpolate
ObjString ==
  /\ Dispatching
  /\ Current.t = "str"
  /\ stack' = <<Frame(Current)>>
  /\ found' = FreshVisited(found)
  /\ ret' = Pending
  /\ opc' = "call"
  /\ UNCHANGED <<obj, ostack, oret, text0, d, found0, phase, ret1, passes, lookups>>
  /\ UNCHANGED <<boolVars, cleanVars>>

\* lines 94-95: interpolate has returned or raised
ObjStringDone ==
  /\ opc = "call"
  /\ stack = <<>>
  /\ ret # Pending
  /\ IF ret.kind = "return" THEN Deliver(ostack, ret.val)
     ELSE ostack' = <<>> /\ oret' = ret /\ opc' = "done"
  /\ UNCHANGED <<obj, interpVars, boolVars, cleanVars>>

\* lines 96-97: the comprehension starts
ObjIterable ==
  /\ Dispatching
  /\ Current.t = "list"
  /\ ostack' = Append(ostack, [items |-> Current.items, i |-> 1, out |-> <<>>])
  /\ UNCHANGED <<obj, opc, oret, interpVars, boolVars, cleanVars>>

\* lines 96-97: the comprehension ends
ObjIterableDone ==
  /\ opc = "dispatch"
  /\ ostack # <<>>
  /\ OTop.i > Len(OTop.items)
  /\ Deliver(SubSeq(ostack, 1, Len(ostack) - 1), PyList(OTop.out))
  /\ UNCHANGED <<obj, interpVars, boolVars, cleanVars>>

\* lines 98-99
ObjScalar ==
  /\ Dispatching
  /\ Current.t \notin {"str", "list"}
  /\ Deliver(ostack, Current)
  /\ UNCHANGED <<obj, interpVars, boolVars, cleanVars>>

ObjNext ==
  \/ ObjString
  \/ ObjStringDone
  \/ ObjIterable
  \/ ObjIterableDone
  \/ ObjScalar
  \/ (opc = "call" /\ InterpEnter)
  \/ (opc = "call" /\ InterpCheck)
  \/ (opc = "call" /\ InterpLookup)
  \/ (opc = "call" /\ InterpFormat)

MaxLen == 3

Leaves == { PyStr(<<"{", "a", "}">>), PyStr(<<"{", "b", "}">>), PyInt(5) }
Elements == Leaves \cup { PyList(<<>>), PyList(<<PyStr(<<"{", "a", "}">>)>>) }
Objects == Leaves \cup { PyList(q) : q \in SeqsUpTo(Elements, MaxLen) }

ObjMappings ==
  { m \in Mappings :
      /\ DOMAIN m \subseteq {<<"a">>, <<"b">>}
      /\ \A k \in DOMAIN m : m[k] \in { PyStr(<<"x">>), PyStr(<<"{", "a", "}">>),
                                         PyStr(<<"{", "b", "}">>) } }

ObjIdle == obj = PyNone /\ ostack = <<>> /\ opc = "idle" /\ oret = Pending

ObjInit ==
  /\ obj \in Objects
  /\ ostack = <<>>
  /\ opc = "dispatch"
  /\ oret = Pending
  /\ text0 = PyNone /\ d \in ObjMappings /\ found0 = {} /\ found = {} /\ stack = <<>>
  /\ ret = Pending /\ phase = 1 /\ ret1 = Pending /\ passes = 0 /\ lookups = {}

(***************************************************************************)
(* Specifications                                                          *)
(***************************************************************************)
InitBool == BoolInit /\ CleanIdle /\ InterpIdle /\ ObjIdle
SpecBool == InitBool /\ [][AsBool]_vars

InitClean == CleanInit /\ BoolIdle /\ InterpIdle /\ ObjIdle
SpecClean == InitClean /\ [][Clean]_vars

InitInterp == InterpInit /\ BoolIdle /\ CleanIdle /\ ObjIdle
SpecInterp == InitInterp /\ [][InterpNext]_vars

InitObj == ObjInit /\ BoolIdle /\ CleanIdle
SpecObj == InitObj /\ [][ObjNext]_vars

\* the step-by-step run of interpolate_object and its one-function form agree
ObjStepsAgree == opc = "done" => oret = InterpolateObject(obj, d)

\* the step-by-step run and the one-function form agree
StepsAgree ==
  (stack = <<>> /\ phase = 1) =>
     /\ ret = Interpolate(text0, d, found0).out
     /\ found = Interpolate(text0, d, found0).found

(***************************************************************************)
(* Vocabulary of the properties                                            *)
(***************************************************************************)
TruthyWords ==
  { <<"t">>, <<"t","r","u","e">>, <<"y">>, <<"y","e","s">>, <<"o","n">>, <<"1">> }
FalsyWords ==
  { <<"f">>, <<"f","a","l","s","e">>, <<"n">>, <<"n","o">>, <<"o","f","f">>,
    <<"0">>, <<>> }
ProtectedWords ==
  { <<"s","e","c","r","e","t">>, <<"p","a","s","s","w","o","r","d">>,
    <<"p","a","s","s","w","d">>, <<"p","w","d">> }

\* cs without the blanks before its first and after its last non-blank character
Trimmed(cs) ==
  LET idx == {i \in 1..Len(cs) : cs[i] \notin WhiteSpace}
  IN IF idx = {} THEN <<>>
     ELSE SubSeq(cs, CHOOSE i \in idx : \A j \in idx : i <= j,
                     CHOOSE i \in idx : \A j \in idx : j <= i)

\* k holds one of the protected words at some position, in any letter case
NamesSecret(k) ==
  \E w \in ProtectedWords : \E i \in 0..(Len(k) - Len(w)) :
    \A j \in 1..Len(w) : LowerChar(k[i + j]) = w[j]

Range(f) == {f[x] : x \in DOMAIN f}

\* the field names of a value: all of them, and the named ones
FieldsOf(v) ==
  IF v.t = "str" /\ ParseFields(v.s).ok THEN Range(ParseFields(v.s).fields) ELSE {}
NamesOf(v) == FieldsOf(v) \ {<<>>}

\* the names the value of key k refers to
Refs(k) == IF k \in DOMAIN d THEN FieldsOf(d[k]) ELSE {}

\* S with every name reachable from it in at most n steps of the reference graph
RECURSIVE ReachFrom(_, _)
ReachFrom(S, n) ==
  IF n = 0 THEN S ELSE ReachFrom(S \cup UNION {Refs(k) : k \in S}, n - 1)

Closure(S) == ReachFrom(S, Cardinality(DOMAIN d) + 1)
Reached(v) == Closure(FieldsOf(v))
OnCycle(k) == k \in Closure(Refs(k))

\* a first top-level call, given an empty visited set, has ended
FirstRunDone == phase = 1 /\ stack = <<>> /\ found0 = {}

\* v with every placeholder replaced by the fully resolved value of its name, as
\* placeholder formatting renders it, for an acyclic reference graph
RECURSIVE Resolved(_)
Resolved(v) ==
  IF v.t # "str" \/ FieldsOf(v) = {} THEN v
  ELSE PyStr(Format(v.s, [n \in FieldsOf(v) |-> Resolved(d[n])]).out)

\* cs holds "{name}" with a non-empty name
HasNamedPlaceholder(cs) ==
  \E i \in 1..Len(cs) : \E j \in (i + 2)..Len(cs) :
    /\ cs[i] = "{"
    /\ cs[j] = "}"
    /\ \A k \in (i + 1)..(j - 1) : cs[k] \notin {"{", "}"}

\* the text of the running top-level call, and the visited set it was given
TopText  == IF phase = 2 THEN ret1.val ELSE text0
Visited0 == IF phase = 2 THEN {} ELSE found0

Signature(v) ==
  IF v.t = "str" /\ ParseFields(v.s).ok THEN Variables(ParseFields(v.s).fields) ELSE <<>>
AllSignatures == {Signature(x) : x \in {TopText} \cup Range(d)} \ {<< >>}

\* a bound on the steps the running top-level call can still take: what the calls
\* on the stack have left to do, and a full call for every signature not yet visited
Longest(sigs) ==
  IF sigs = {} THEN 0
  ELSE Len(CHOOSE x \in sigs : \A y \in sigs : Len(y) <= Len(x))

FrameCost(st, k) ==
  LET f == st[k]
  IN IF f.pc = "enter" THEN 2
     ELSE IF f.pc = "check" THEN 1
     ELSE IF k = Len(st) THEN 3 * (Len(f.vars) - f.i + 1) + 1
     ELSE 3 * (Len(f.vars) - f.i) + 1

RECURSIVE StackCost(_, _)
StackCost(st, k) == IF k = 0 THEN 0 ELSE FrameCost(st, k) + StackCost(st, k - 1)

Remaining(sigs, fnd, st) ==
  (3 * Longest(sigs) + 3) * Cardinality(sigs \ fnd) + StackCost(st, Len(st))

\* the innermost active call stands at one of the steps of interpolate, so that
\* one of them can be taken
CanStep == Top.pc \in {"enter", "check", "loop"}

\* what the calls that passed the cycle check have added to the visited set: one
\* signature each, all among the signatures of text and the mapping's values
PassesCounted ==
  /\ Visited0 \subseteq found
  /\ passes = Cardinality(found \ Visited0)
  /\ LET sigs == AllSignatures
     IN (found \ Visited0) \subseteq sigs /\ passes <= Cardinality(sigs)
  /\ Len(stack) <= passes + 1
  /\ stack # <<>> => CanStep

(***************************************************************************)
(* Properties                                                              *)
(***************************************************************************)

\* C1: when every name resolving reaches is a key of the mapping and the reference
\* chain from text holds a cycle, interpolate(text, mapping, {}) fails with the
\* cyclic-interpolation error.
C1_CycleReported ==
  (FirstRunDone /\ Reached(text0) \subseteq DOMAIN d
     /\ \E k \in Reached(text0) : OnCycle(k))
    => ret = Raised(CycleError)

\* C2: as_bool gives False for None, a boolean unchanged, and for any other input
\* True exactly when its stripped, lower-cased string form is a truthy word, False
\* exactly when it is a falsy word, and the invalid-boolean error otherwise.
C2_AsBoolClassifies ==
  bpc = "done" =>
    IF s0.t = "None" THEN bret = Returned(PyBool(FALSE))
    ELSE IF s0.t = "bool" THEN bret = Returned(s0)
    ELSE LET w == Lower(Trimmed(Str(s0)))
         IN /\ (bret = Returned(PyBool(TRUE))) <=> (w \in TruthyWords)
            /\ (bret = Returned(PyBool(FALSE))) <=> (w \in FalsyWords)
            /\ (bret = Raised("ValueError: Expected a valid True or False expression."))
                 <=> (w \notin TruthyWords \cup FalsyWords)

C2_Witness ==
  /\ bpc = "done"
  /\ s0 = PyStr(<<" ", "Y", "E", "S", "\n">>)
  /\ bret = Returned(PyBool(TRUE))

\* C3: for a key holding secret, password, passwd or pwd in any letter case at any
\* position, clean returns exactly mask, whatever the value.
C3_ProtectedKeyMasked ==
  (cpc = "done" /\ NamesSecret(key0)) => cret = Returned(PyStr(mask))

C3_Witness ==
  /\ cpc = "done"
  /\ key0 = <<"x", "P", "w", "d", "s">>
  /\ parts.isUrl /\ parts.ui.hasPw
  /\ cret = Returned(PyStr(mask))

\* C4: for a non-protected key and a URL carrying a password, clean returns the URL
\* with the password segment replaced by mask and every other component as in the
\* input.
C4_UrlOtherwiseUnchanged ==
  (cpc = "done" /\ ~NamesSecret(key0) /\ parts.isUrl /\ parts.ui.hasPw)
    => cret = Returned(PyStr(UrlText(parts, mask)))

C6_ElementsIndependent ==
  opc = "done" =>
    IF obj.t = "list"
    THEN LET alone == [i \in 1..Len(obj.items) |-> InterpolateObject(obj.items[i], d)]
         IN IF \A i \in 1..Len(alone) : alone[i].kind = "return"
            THEN /\ oret.kind = "return"
                 /\ oret.val.t = "list"
                 /\ Len(oret.val.items) = Len(obj.items)
                 /\ \A i \in 1..Len(alone) : oret.val.items[i] = alone[i].val
            ELSE \E i \in 1..Len(alone) :
                   /\ alone[i].kind = "raise"
                   /\ \A j \in 1..(i - 1) : alone[j].kind = "return"
                   /\ oret = alone[i]
    ELSE obj.t # "str" => oret = Returned(obj)

C6_Witness ==
  /\ opc = "done"
  /\ obj = PyList(<<PyStr(<<"{", "a", "}">>), PyInt(5), PyList(<<PyStr(<<"{", "a", "}">>)>>)>>)
  /\ <<"a">> \in DOMAIN d /\ d[<<"a">>] = PyStr(<<"{", "b", "}">>)
  /\ oret = Returned(PyList(<<PyStr(<<"x">>), PyInt(5), PyList(<<PyStr(<<"x">>)>>)>>))

\* C7: for a text whose only brace tokens are anonymous fields and escaped braces,
\* interpolate returns text unchanged, looks nothing up and adds nothing to the
\* visited set.
C7_AnonymousIgnored ==
  (FirstRunDone /\ ParseFields(text0.s).ok /\ NamesOf(text0) = {}) =>
    /\ ret = Returned(text0)
    /\ lookups = {}
    /\ found = {}

\* C8: when interpolate(text, mapping, {}) returns r and r holds no placeholder,
\* interpolate(r, mapping, {}) returns r and adds nothing to the visited set.
C8_Idempotent ==
  (phase = 2 /\ stack = <<>> /\ found0 = {} /\ ~HasNamedPlaceholder(ret1.val.s)) =>
    /\ ret = ret1
    /\ found = {}

\* C9: for an acyclic reference graph in which every referenced name is present,
\* interpolate(text, mapping, {}) returns text with every placeholder replaced by
\* the fully resolved value of its name (stated for texts and values without
\* anonymous fields).
C9_NoFalseCycle ==
  (FirstRunDone /\ FieldsOf(text0) \subseteq DOMAIN d
     /\ (\A k \in DOMAIN d : Refs(k) \subseteq DOMAIN d /\ ~OnCycle(k) /\ <<>> \notin Refs(k))
     /\ <<>> \notin FieldsOf(text0))
    => ret = Returned(Resolved(text0))

\* C10: every call of interpolate ends; each call that passes the cycle check adds
\* one signature that was not yet visited, the visited set only grows during a
\* top-level call, and at most as many calls pass the check as there are distinct
\* signatures among text and the mapping's values. Ending is stated by a count of
\* the steps left, which every step of a top-level call makes smaller.
C10_Terminates ==
  /\ []PassesCounted
  /\ [][phase' = phase =>
         /\ found \subseteq found'
         /\ LET sigs == AllSignatures
            IN Remaining(sigs, found', stack') < Remaining(sigs, found, stack)]_vars

C10_Witness ==
  /\ phase = 1
  /\ passes = 3
  /\ passes = Cardinality(AllSignatures)
  /\ ret = Raised(CycleError)

====
